---- MODULE Spec2Model ----
(***************************************************************************)
(* Model of src/app.py: a Streamlit script that is re-run from top to      *)
(* bottom on every user interaction.  One process serves several sessions; *)
(* the st.cache_data cache of fetch_languages lives as long as the         *)
(* process, st.session_state as long as the session, everything else as    *)
(* long as one run of the script.                                          *)
(*                                                                         *)
(* Python values: a str is a TLA+ string, except the input text, which is  *)
(* a sequence of one-character strings so that str.strip() can be          *)
(* computed; None is NoneV where a str is expected and NoScore where a     *)
(* number is expected; a dict is the sequence of its items in insertion    *)
(* order.  A missing key of a JSON object is NoneV / NoScore as well.      *)
(***************************************************************************)
EXTENDS Integers, Sequences, FiniteSets, TLC

\* ---------------------------------------------------------------- bounds
MaxLen == 2
MaxGets == 2

\* ------------------------------------------------------- python values
NoneV == "<None>"
NoScore == -1

Chars == {" ", "a"}
Texts == UNION {[1..n -> Chars] : n \in 0..MaxLen}

Truthy(s) == s # NoneV /\ s # ""
TruthyNum(x) == x # NoScore /\ x # 0

RECURSIVE lstrip(_)
lstrip(t) == IF t # <<>> /\ Head(t) = " " THEN lstrip(Tail(t)) ELSE t

RECURSIVE rstrip(_)
rstrip(t) ==
  IF t # <<>> /\ t[Len(t)] = " " THEN rstrip(SubSeq(t, 1, Len(t) - 1)) ELSE t

strip(t) == rstrip(lstrip(t))

\* dict.get(key): the value of the item whose key is `key`, else None
DictGet(d, key) ==
  IF \E i \in 1..Len(d) : d[i].name = key
  THEN d[CHOOSE i \in 1..Len(d) : d[i].name = key].code
  ELSE NoneV

\* d[key] = value: an existing key keeps its position, a new key is appended
DictSet(d, key, value) ==
  IF \E i \in 1..Len(d) : d[i].name = key
  THEN [i \in 1..Len(d) |->
          IF d[i].name = key THEN [name |-> key, code |-> value] ELSE d[i]]
  ELSE Append(d, [name |-> key, code |-> value])

\* list(d.keys())
DictKeys(d) == [i \in 1..Len(d) |-> d[i].name]

DictValues(d) == {d[i].code : i \in 1..Len(d)}

\* l[1:]
ListTail(l) == IF l = <<>> THEN <<>> ELSE Tail(l)

\* x in list
InList(x, l) == \E i \in 1..Len(l) : l[i] = x

\* list.index(x), 0-based, for x in the list
ListIndex(l, x) == (CHOOSE i \in 1..Len(l) : l[i] = x /\ \A j \in 1..(i-1) : l[j] # x) - 1

\* next((name for name, code in languages.items() if code == c), c)
ReverseLookup(d, c) ==
  IF \E i \in 1..Len(d) : d[i].code = c
  THEN d[CHOOSE i \in 1..Len(d) : d[i].code = c /\ \A j \in 1..(i-1) : d[j].code # c].name
  ELSE c

\* ---------------------------------------------------------- HTTP and UI
Request(method, path, to, from, scope, body) ==
  [method |-> method, path |-> path,
   params |-> [api_version |-> "3.0", to |-> to, from |-> from, scope |-> scope],
   body |-> body]

El(kind, what) == [kind |-> kind, what |-> what]

\* what the provider can answer to GET /languages: the `translation` object
\* as the sequence of its (code, details.name) items
Lang(code, name) == [code |-> code, name |-> name]

LangResp(kind, has_translation, translation) ==
  [kind |-> kind, has_translation |-> has_translation, translation |-> translation]

\* The provider's language codes are non-empty tags and none of its
\* languages is named "Detect", the name line 65 reserves.
NoLangResponse == LangResp("none", FALSE, <<>>)

LanguagesResponses ==
  { LangResp("neterr", FALSE, <<>>),
    LangResp("http500", FALSE, <<>>),
    LangResp("badjson", FALSE, <<>>),
    LangResp("ok", FALSE, <<>>),
    LangResp("ok", TRUE, <<>>),
    LangResp("ok", TRUE, <<Lang("en", "English")>>),
    LangResp("ok", TRUE, <<Lang("en", "English"), Lang("fr", "French")>>),
    LangResp("ok", TRUE, <<Lang("fr", "French"), Lang("es", "Spanish")>>),
    LangResp("ok", TRUE, <<Lang("en", "English"), Lang("fr", NoneV)>>),
    LangResp("ok", TRUE, <<Lang("en", "English"), Lang("fr", "French"),
                           Lang("en-GB", "English")>>) }

\* the loop of lines 54-57 over data["translation"].items()
RECURSIVE BuildLanguages(_, _)
BuildLanguages(items, acc) ==
  IF items = <<>> THEN acc
  ELSE BuildLanguages(Tail(items), DictSet(acc, Head(items).name, Head(items).code))

\* variant: an item without a name is skipped, the others are kept
fetch_languages_body_partial(resp) ==
  LET req == Request("GET", "/languages", NoneV, NoneV, "translation", <<>>)
      named == SelectSeq(resp.translation, LAMBDA l : l.name # NoneV)
  IN IF resp.kind # "ok" \/ ~resp.has_translation
     THEN [value |-> <<>>, reqs |-> <<req>>, ui |-> <<El("error", "languages")>>]
     ELSE [value |-> BuildLanguages(named, <<>>), reqs |-> <<req>>,
           ui |-> IF Len(named) < Len(resp.translation)
                  THEN <<El("error", "languages")>> ELSE <<>>]

\* the body of fetch_languages: the GET, and what is returned and shown
fetch_languages_body(resp) ==
  LET req == Request("GET", "/languages", NoneV, NoneV, "translation", <<>>)
      raises == \/ resp.kind # "ok"
                \/ ~resp.has_translation
                \/ \E i \in 1..Len(resp.translation) : resp.translation[i].name = NoneV
  IN IF raises
     THEN [value |-> <<>>, reqs |-> <<req>>, ui |-> <<El("error", "languages")>>]
     ELSE [value |-> BuildLanguages(resp.translation, <<>>), reqs |-> <<req>>, ui |-> <<>>]

\* language_names = ["Detect"] + list(languages.keys())
language_names_of(languages) == <<"Detect">> \o DictKeys(languages)

\* what the provider can answer to POST /translate: data is the JSON array,
\* an item's `translations` the array of its translations (text: NoneV when
\* the key is missing), detectedLanguage the optional block
Det(present, language, score) ==
  [present |-> present, language |-> language, score |-> score]

NoDet == Det(FALSE, NoneV, NoScore)

Item(translations, det) == [translations |-> translations, detectedLanguage |-> det]

TrResp(kind, data) == [kind |-> kind, data |-> data]

NoResponse == TrResp("none", <<>>)

TranslateResponses ==
  { TrResp("neterr", <<>>),
    TrResp("http500", <<>>),
    TrResp("badjson", <<>>),
    TrResp("ok", <<>>),
    TrResp("ok", <<Item(<<>>, NoDet)>>),
    TrResp("ok", <<Item(<<[text |-> NoneV]>>, NoDet)>>),
    TrResp("ok", <<Item(<<[text |-> "Bonjour"]>>, NoDet)>>),
    TrResp("ok", <<Item(<<[text |-> ""]>>, NoDet)>>),
    TrResp("ok", <<Item(<<[text |-> "Bonjour"]>>, Det(TRUE, "en", 1))>>),
    TrResp("ok", <<Item(<<[text |-> "Bonjour"]>>, Det(TRUE, NoneV, 1))>>),
    TrResp("ok", <<Item(<<[text |-> "Bonjour"]>>, Det(TRUE, "en", NoScore))>>) }

\* lines 80-89: the query parameters; `from` only for a source other than
\* "Detect" whose code is truthy
\* variant: the two codes exchanged
translate_params_swapped(source_language_name, target_lang_code, languages) ==
  LET source_lang_code == DictGet(languages, source_language_name)
  IN [to |-> IF source_language_name # "Detect" /\ Truthy(source_lang_code)
             THEN source_lang_code ELSE target_lang_code,
      from |-> IF source_language_name # "Detect" /\ Truthy(source_lang_code)
               THEN target_lang_code ELSE NoneV]

\* variant: the source name sent in place of its code
translate_params_source_name(source_language_name, target_lang_code, languages) ==
  [to |-> target_lang_code,
   from |-> IF source_language_name # "Detect" THEN source_language_name ELSE NoneV]

translate_params(source_language_name, target_lang_code, languages) ==
  LET source_lang_code == DictGet(languages, source_language_name)
  IN [to |-> target_lang_code,
      from |-> IF source_language_name # "Detect" /\ Truthy(source_lang_code)
               THEN source_lang_code ELSE NoneV]

\* lines 107-123: raise_for_status, json, the result and the detected-language
\* message; raises: an exception reaches the except clause of line 125
translate_parse(resp, source_language_name, languages) ==
  LET fail == [raises |-> TRUE, result |-> NoneV, ui |-> <<>>]
  IN IF resp.kind # "ok" THEN fail
     ELSE IF Len(resp.data) = 0 THEN fail
     ELSE IF Len(resp.data[1].translations) = 0 THEN fail
     ELSE IF resp.data[1].translations[1].text = NoneV THEN fail
     ELSE LET result == resp.data[1].translations[1].text
              det == resp.data[1].detectedLanguage
          IN IF source_language_name = "Detect" /\ det.present
             THEN IF det.language = NoneV \/ det.score = NoScore THEN fail
                  ELSE [raises |-> FALSE, result |-> result,
                        ui |-> <<El("info", ReverseLookup(languages, det.language))>>]
             ELSE [raises |-> FALSE, result |-> result, ui |-> <<>>]

TranslateRequest(input_text, p) ==
  Request("POST", "/translate", p.to, p.from, NoneV, <<input_text>>)

\* variant: no test of the target code (lines 74-75 left out)
translate_text_no_target_check(input_text, source_name, target_name, languages, resp) ==
  LET p == translate_params(source_name,
                            DictGet(languages, target_name), languages)
      req == TranslateRequest(input_text, p)
      out == translate_parse(resp, source_name, languages)
  IN IF out.raises
     THEN [ret |-> "Error during translation.", reqs |-> <<req>>,
           ui |-> <<El("error", "translation")>>]
     ELSE [ret |-> out.result, reqs |-> <<req>>, ui |-> out.ui]

\* variant: the request is sent a second time when it fails
translate_text_retry(input_text, source_name, target_name, languages, resp) ==
  LET target_lang_code == DictGet(languages, target_name)
      p == translate_params(source_name, target_lang_code, languages)
      req == TranslateRequest(input_text, p)
      out == translate_parse(resp, source_name, languages)
  IN IF ~Truthy(target_lang_code)
     THEN [ret |-> "Invalid target language selection.", reqs |-> <<>>, ui |-> <<>>]
     ELSE IF out.raises
     THEN [ret |-> "Error during translation.", reqs |-> <<req, req>>,
           ui |-> <<El("error", "translation")>>]
     ELSE [ret |-> out.result, reqs |-> <<req>>, ui |-> out.ui]

\* translate_text: what it returns, the requests it issues, what it shows
translate_text(input_text, source_name, target_name, languages, resp) ==
  LET target_lang_code == DictGet(languages, target_name)
      p == translate_params(source_name, target_lang_code, languages)
      req == TranslateRequest(input_text, p)
      out == translate_parse(resp, source_name, languages)
  IN IF ~Truthy(target_lang_code)
     THEN [ret |-> "Invalid target language selection.", reqs |-> <<>>, ui |-> <<>>]
     ELSE IF out.raises
     THEN [ret |-> "Error during translation.", reqs |-> <<req>>,
           ui |-> <<El("error", "translation")>>]
     ELSE [ret |-> out.result, reqs |-> <<req>>, ui |-> out.ui]

\* what the provider can answer to POST /detect: data is the JSON array of
\* results (language: NoneV, score: NoScore when the key is missing)
DetResp(kind, data) == [kind |-> kind, data |-> data]

NoDetResponse == DetResp("none", <<>>)

DetectResponses ==
  { DetResp("neterr", <<>>),
    DetResp("http500", <<>>),
    DetResp("badjson", <<>>),
    DetResp("ok", <<>>),
    DetResp("ok", <<[language |-> "en", score |-> 1]>>),
    DetResp("ok", <<[language |-> "en", score |-> 0]>>),
    DetResp("ok", <<[language |-> "zz", score |-> 1]>>),
    DetResp("ok", <<[language |-> NoneV, score |-> 1]>>),
    DetResp("ok", <<[language |-> "en", score |-> NoScore]>>) }

\* a /detect answer that carries a language and a non-zero score
DetectionFound(resp) ==
  /\ resp.kind = "ok"
  /\ Len(resp.data) > 0
  /\ resp.data[1].language # NoneV
  /\ resp.data[1].score # NoScore
  /\ resp.data[1].score # 0

DetectRequest(input_text) == Request("POST", "/detect", NoneV, NoneV, NoneV, <<input_text>>)

\* variant: no test for blank input (lines 134-135 left out)
detect_language_no_strip(input_text, languages, resp) ==
  LET none == [lang |-> NoneV, conf |-> NoScore]
      req == DetectRequest(input_text)
  IN IF resp.kind # "ok"
          \/ (Len(resp.data) > 0
              /\ (resp.data[1].language = NoneV \/ resp.data[1].score = NoScore))
     THEN none @@ [reqs |-> <<req>>, ui |-> <<El("error", "detection")>>]
     ELSE IF Len(resp.data) > 0
     THEN [lang |-> ReverseLookup(languages, resp.data[1].language),
           conf |-> resp.data[1].score, reqs |-> <<req>>, ui |-> <<>>]
     ELSE none @@ [reqs |-> <<req>>, ui |-> <<>>]

\* detect_language: the (name, confidence) pair it returns, the requests it
\* issues, what it shows
detect_language(input_text, languages, resp) ==
  LET none == [lang |-> NoneV, conf |-> NoScore]
      req == DetectRequest(input_text)
  IN IF strip(input_text) = <<>>
     THEN none @@ [reqs |-> <<>>, ui |-> <<>>]
     ELSE IF resp.kind # "ok"
          \/ (Len(resp.data) > 0
              /\ (resp.data[1].language = NoneV \/ resp.data[1].score = NoScore))
     THEN none @@ [reqs |-> <<req>>, ui |-> <<El("error", "detection")>>]
     ELSE IF Len(resp.data) > 0
     THEN [lang |-> ReverseLookup(languages, resp.data[1].language),
           conf |-> resp.data[1].score, reqs |-> <<req>>, ui |-> <<>>]
     ELSE none @@ [reqs |-> <<req>>, ui |-> <<>>]

\* ------------------------------------------------------------ the script
VARIABLES
  config,             \* the three values read by os.getenv (lines 14-16)
  cache,              \* st.cache_data's entry for fetch_languages (process)
  session_state,      \* st.session_state.previous_input (session)
  input_text,         \* the text_area's value (session; line 174)
  clicked,            \* st.button("Translate") of this run (line 217)
  pc,                 \* where the run of the script is
  languages,          \* line 64
  detected_lang,      \* lines 177, 187
  confidence,         \* lines 178, 187
  source_options,     \* the options given to the source selectbox
  target_options,     \* the options given to the target selectbox
  source_language,    \* line 200
  target_language,    \* line 210
  translation,        \* what translate_text returned (line 219)
  requests,           \* the HTTP requests issued by this run, in order
  ui,                 \* the elements this run has put on the page, in order
  detect_found,       \* this run's /detect request was answered with a language and a non-zero score
  translate_response, \* the provider's answer to this run's /translate request
  languages_gets,     \* history: GET /languages issued by the process so far
  first_languages,    \* history: what the first fetch_languages call returned
  fetch_failed,       \* history: the process's last GET /languages failed
  unchanged_text      \* history: the input text is that of the session's previous run

vars == <<config, cache, session_state, input_text, clicked, pc, languages,
          detected_lang, confidence, source_options, target_options,
          source_language, target_language, translation, requests, ui,
          detect_found, translate_response, languages_gets, first_languages,
          fetch_failed, unchanged_text>>

process_vars == <<config, cache, languages_gets, first_languages, fetch_failed>>

ConfigValues == {NoneV, "", "set"}

Configs == [key : ConfigValues, endpoint : ConfigValues, region : ConfigValues]

\* variant: `and` in place of `or`
config_missing_all(c) ==
  ~Truthy(c.key) /\ ~Truthy(c.endpoint) /\ ~Truthy(c.region)

\* line 19
config_missing(c) ==
  ~Truthy(c.key) \/ ~Truthy(c.endpoint) \/ ~Truthy(c.region)

NoCache == [set |-> FALSE, value |-> <<>>, ui |-> <<>>]

NoPrevious == [has_previous_input |-> FALSE, previous_input |-> <<>>]

\* a /languages answer from which line 50-57 cannot build the mapping
LanguagesFailure(resp) ==
  \/ resp.kind \in {"neterr", "http500", "badjson"}
  \/ ~resp.has_translation
  \/ \E i \in 1..Len(resp.translation) : resp.translation[i].name = NoneV

\* variant: only a result obtained without error is stored
fetch_languages_success_only(c, resp) ==
  IF c.set
  THEN [value |-> c.value, reqs |-> <<>>, ui |-> c.ui, cache |-> c]
  ELSE LET b == fetch_languages_body(resp)
       IN [value |-> b.value, reqs |-> b.reqs, ui |-> b.ui,
           cache |-> IF b.ui = <<>>
                     THEN [set |-> TRUE, value |-> b.value, ui |-> b.ui]
                     ELSE c]

\* @st.cache_data around fetch_languages: the body runs when the cache has no
\* entry, and its return value and the elements it showed are stored; a later
\* call returns the stored value and shows the stored elements again
fetch_languages(c, resp) ==
  IF c.set
  THEN [value |-> c.value, reqs |-> <<>>, ui |-> c.ui, cache |-> c]
  ELSE LET b == fetch_languages_body(resp)
       IN [value |-> b.value, reqs |-> b.reqs, ui |-> b.ui,
           cache |-> [set |-> TRUE, value |-> b.value, ui |-> b.ui]]

\* lines 181 and 186
should_detect(text, ss) ==
  /\ text # <<>>
  /\ (~ss.has_previous_input \/ ss.previous_input # text)

\* line 188
\* variant: the confidence is not tested
should_record_any_confidence(lang, conf) == Truthy(lang)

should_record(lang, conf) == Truthy(lang) /\ TruthyNum(conf)

\* lines 195-199
default_index(lang, names) ==
  IF Truthy(lang) /\ InList(lang, names) THEN ListIndex(names, lang) ELSE 0

\* line 209
target_language_index(names) ==
  IF InList("English", names) THEN ListIndex(names, "English") ELSE 1

\* st.selectbox(label, options, index): raises when the options are not empty
\* and the index is not one of theirs
selectbox_raises(options, index) ==
  Len(options) > 0 /\ ~(0 <= index /\ index < Len(options))

\* what a selectbox can return: one of its options, None when it has none
selectbox_values(options) ==
  IF Len(options) = 0 THEN {NoneV} ELSE {options[i] : i \in 1..Len(options)}

Min(a, b) == IF a < b THEN a ELSE b

\* the provider answers the requests that are issued: `answers` when the
\* call issues one, no answer otherwise
AnswersTo(reqs, answers, none) == IF reqs = <<>> THEN {none} ELSE answers

RunLocalsReset ==
  /\ languages' = <<>>
  /\ detected_lang' = NoneV
  /\ confidence' = NoScore
  /\ source_options' = <<>>
  /\ target_options' = <<>>
  /\ source_language' = NoneV
  /\ target_language' = NoneV
  /\ translation' = NoneV
  /\ requests' = <<>>
  /\ ui' = <<>>
  /\ detect_found' = FALSE
  /\ translate_response' = NoResponse

Init ==
  /\ config \in Configs
  /\ cache = NoCache
  /\ session_state = NoPrevious
  /\ input_text = <<>>
  /\ clicked = FALSE
  /\ pc = "idle"
  /\ languages = <<>>
  /\ detected_lang = NoneV
  /\ confidence = NoScore
  /\ source_options = <<>>
  /\ target_options = <<>>
  /\ source_language = NoneV
  /\ target_language = NoneV
  /\ translation = NoneV
  /\ requests = <<>>
  /\ ui = <<>>
  /\ detect_found = FALSE
  /\ translate_response = NoResponse
  /\ languages_gets = 0
  /\ first_languages = [set |-> FALSE, value |-> <<>>]
  /\ fetch_failed = FALSE
  /\ unchanged_text = FALSE

\* a user interaction (text edited, option picked, button pressed) starts a
\* run of the script from line 1
StartRerun(txt, click) ==
  /\ pc \in {"idle", "ready"}
  /\ pc' = "config"
  /\ input_text' = txt
  /\ clicked' = click
  /\ unchanged_text' = (pc = "ready" /\ txt = input_text)
  /\ UNCHANGED <<session_state, process_vars, languages, detected_lang,
                 confidence, source_options, target_options, source_language,
                 target_language, translation, requests, ui, detect_found,
                 translate_response>>

\* lines 12-28
ConfigCheck ==
  /\ pc = "config"
  /\ IF config_missing(config)
     THEN /\ ui' = Append(ui, El("error", "config"))
          /\ pc' = "done"
     ELSE /\ ui' = ui
          /\ pc' = "fetch"
  /\ UNCHANGED <<config, cache, session_state, input_text, clicked, languages,
                 detected_lang, confidence, source_options, target_options,
                 source_language, target_language, translation, requests,
                 detect_found, translate_response, languages_gets,
                 first_languages, fetch_failed, unchanged_text>>

\* lines 30-65
FetchLanguages(resp) ==
  /\ pc = "fetch"
  /\ resp \in AnswersTo(fetch_languages(cache, NoLangResponse).reqs,
                        LanguagesResponses, NoLangResponse)
  /\ LET r == fetch_languages(cache, resp)
     IN /\ languages' = r.value
        /\ cache' = r.cache
        /\ requests' = requests \o r.reqs
        /\ ui' = ui \o r.ui
        /\ languages_gets' = Min(languages_gets + Len(r.reqs), MaxGets)
        /\ first_languages' = IF first_languages.set THEN first_languages
                              ELSE [set |-> TRUE, value |-> r.value]
        /\ fetch_failed' = IF r.reqs # <<>> THEN LanguagesFailure(resp)
                           ELSE fetch_failed
  /\ pc' = "detect"
  /\ UNCHANGED <<config, session_state, input_text, clicked, detected_lang,
                 confidence, source_options, target_options, source_language,
                 target_language, translation, detect_found,
                 translate_response, unchanged_text>>

\* lines 171-190
DetectBlock(resp) ==
  /\ pc = "detect"
  /\ resp \in AnswersTo(IF should_detect(input_text, session_state)
                        THEN detect_language(input_text, languages, NoDetResponse).reqs
                        ELSE <<>>,
                        DetectResponses, NoDetResponse)
  /\ LET page == <<El("title", ""), El("write", ""), El("text_area", "")>>
     IN IF should_detect(input_text, session_state)
        THEN LET d == detect_language(input_text, languages, resp)
                 rec == should_record(d.lang, d.conf)
             IN /\ detected_lang' = d.lang
                /\ confidence' = d.conf
                /\ requests' = requests \o d.reqs
                /\ detect_found' = (d.reqs # <<>> /\ DetectionFound(resp))
                /\ ui' = ui \o page \o d.ui
                           \o (IF rec THEN <<El("info", d.lang)>> ELSE <<>>)
                /\ session_state' =
                     IF rec
                     THEN [has_previous_input |-> TRUE, previous_input |-> input_text]
                     ELSE session_state
        ELSE /\ ui' = ui \o page
             /\ UNCHANGED <<detected_lang, confidence, requests, detect_found,
                            session_state>>
  /\ pc' = "pickers"
  /\ UNCHANGED <<process_vars, input_text, clicked, languages, source_options,
                 target_options, source_language, target_language, translation,
                 translate_response, unchanged_text>>

\* lines 192-215
Pickers(src, tgt) ==
  /\ pc = "pickers"
  /\ LET names == language_names_of(languages)
         targets == ListTail(names)
     IN /\ source_options' = names
        /\ target_options' = targets
        /\ IF \/ selectbox_raises(names, default_index(detected_lang, names))
              \/ selectbox_raises(targets, target_language_index(names) - 1)
           THEN /\ pc' = "crashed"
                /\ UNCHANGED <<source_language, target_language, ui>>
           ELSE /\ src \in selectbox_values(names)
                /\ tgt \in selectbox_values(targets)
                /\ source_language' = src
                /\ target_language' = tgt
                /\ ui' = ui \o <<El("selectbox", "source"), El("selectbox", "target")>>
                /\ pc' = "submit"
  /\ UNCHANGED <<process_vars, session_state, input_text, clicked, languages,
                 detected_lang, confidence, translation, requests,
                 detect_found, translate_response, unchanged_text>>

\* lines 217-223
Submit(resp) ==
  /\ pc = "submit"
  /\ resp \in AnswersTo(IF clicked /\ strip(input_text) # <<>>
                        THEN translate_text(input_text, source_language, target_language,
                                            languages, NoResponse).reqs
                        ELSE <<>>,
                        TranslateResponses, NoResponse)
  /\ IF clicked
     THEN IF strip(input_text) # <<>>
          THEN LET t == translate_text(input_text, source_language,
                                       target_language, languages, resp)
               IN /\ translation' = t.ret
                  /\ requests' = requests \o t.reqs
                  /\ translate_response' = IF t.reqs # <<>> THEN resp ELSE NoResponse
                  /\ ui' = ui \o <<El("button", "")>> \o t.ui
                              \o <<El("subheader", ""), El("write", t.ret)>>
          ELSE /\ ui' = ui \o <<El("button", ""), El("warning", "blank")>>
               /\ UNCHANGED <<translation, requests, translate_response>>
     ELSE /\ ui' = Append(ui, El("button", ""))
          /\ UNCHANGED <<translation, requests, translate_response>>
  /\ pc' = "done"
  /\ UNCHANGED <<process_vars, session_state, input_text, clicked, languages,
                 detected_lang, confidence, source_options, target_options,
                 source_language, target_language, detect_found,
                 unchanged_text>>

\* the run is over (the script reached its end, st.stop() or an uncaught
\* exception): its module-level names are gone, the session and the process
\* keep their state
EndRun ==
  /\ pc \in {"done", "crashed"}
  /\ pc' = "ready"
  /\ clicked' = FALSE
  /\ RunLocalsReset
  /\ UNCHANGED <<process_vars, session_state, input_text, unchanged_text>>

\* another browser session of the same process: fresh session state and
\* widgets, the same cache
NewSession ==
  /\ pc = "ready"
  /\ pc' = "idle"
  /\ session_state' = NoPrevious
  /\ input_text' = <<>>
  /\ unchanged_text' = FALSE
  /\ UNCHANGED <<process_vars, clicked, languages, detected_lang, confidence,
                 source_options, target_options, source_language,
                 target_language, translation, requests, ui, detect_found,
                 translate_response>>

Next ==
  \/ \E txt \in Texts, click \in BOOLEAN : StartRerun(txt, click)
  \/ ConfigCheck
  \/ \E resp \in LanguagesResponses \cup {NoLangResponse} : FetchLanguages(resp)
  \/ \E resp \in DetectResponses \cup {NoDetResponse} : DetectBlock(resp)
  \/ \E src \in {"Detect", "English", "French", "Spanish"},
        tgt \in {NoneV, "English", "French", "Spanish"} : Pickers(src, tgt)
  \/ \E resp \in TranslateResponses \cup {NoResponse} : Submit(resp)
  \/ EndRun
  \/ NewSession

Spec == Init /\ [][Next]_vars

\* ------------------------------------------- translate_text on its own
\* translate_text called with any text and any pair of names, over each
\* catalog fetch_languages can return
Catalogs == {fetch_languages_body(r).value : r \in LanguagesResponses}

SourceNames == {NoneV, "Detect", "English", "French", "Spanish", "Klingon"}

TargetNames == {NoneV, "Detect", "English", "French", "Spanish", "Klingon"}

InitFn ==
  /\ config = [key |-> "set", endpoint |-> "set", region |-> "set"]
  /\ cache = NoCache
  /\ session_state = NoPrevious
  /\ input_text = <<>>
  /\ clicked = FALSE
  /\ pc = "fn"
  /\ languages \in Catalogs
  /\ detected_lang = NoneV
  /\ confidence = NoScore
  /\ source_options = <<>>
  /\ target_options = <<>>
  /\ source_language = NoneV
  /\ target_language = NoneV
  /\ translation = NoneV
  /\ requests = <<>>
  /\ ui = <<>>
  /\ detect_found = FALSE
  /\ translate_response = NoResponse
  /\ languages_gets = 0
  /\ first_languages = [set |-> FALSE, value |-> <<>>]
  /\ fetch_failed = FALSE
  /\ unchanged_text = FALSE

CallTranslate(txt, src, tgt, resp) ==
  /\ pc = "fn"
  /\ resp \in AnswersTo(translate_text(txt, src, tgt, languages, NoResponse).reqs,
                        TranslateResponses, NoResponse)
  /\ LET t == translate_text(txt, src, tgt, languages, resp)
     IN /\ translation' = t.ret
        /\ requests' = t.reqs
        /\ ui' = t.ui
        /\ translate_response' = IF t.reqs # <<>> THEN resp ELSE NoResponse
  /\ input_text' = txt
  /\ source_language' = src
  /\ target_language' = tgt
  /\ pc' = "returned"
  /\ UNCHANGED <<process_vars, session_state, clicked, languages,
                 detected_lang, confidence, source_options, target_options,
                 detect_found, unchanged_text>>

\* the caller is done with the result
Discard ==
  /\ pc = "returned"
  /\ pc' = "fn"
  /\ input_text' = <<>>
  /\ source_language' = NoneV
  /\ target_language' = NoneV
  /\ translation' = NoneV
  /\ requests' = <<>>
  /\ ui' = <<>>
  /\ translate_response' = NoResponse
  /\ UNCHANGED <<process_vars, session_state, clicked, languages,
                 detected_lang, confidence, source_options, target_options,
                 detect_found, unchanged_text>>

NextFn ==
  \/ \E txt \in Texts, src \in SourceNames, tgt \in TargetNames,
        resp \in TranslateResponses \cup {NoResponse} :
          CallTranslate(txt, src, tgt, resp)
  \/ Discard

SpecFn == InitFn /\ [][NextFn]_vars

\* ----------------------------------------------------------- properties
\* the name is a key of the catalog / the code the catalog gives it
Resolves(name) == \E i \in 1..Len(languages) : languages[i].name = name

CodeOf(name) == languages[CHOOSE i \in 1..Len(languages) : languages[i].name = name].code

\* a /translate answer that carries response[0].translations[0].text
ProviderSuccess(resp) ==
  /\ resp.kind = "ok"
  /\ Len(resp.data) > 0
  /\ Len(resp.data[1].translations) > 0
  /\ resp.data[1].translations[1].text # NoneV

\* a /translate request that failed: network error, error status, a body
\* that is no JSON or lacks response[0].translations[0].text
TranslateFailed(resp) ==
  \/ resp.kind \in {"neterr", "http500", "badjson"}
  \/ resp.kind = "ok" /\ ~ProviderSuccess(resp)

Returned == pc = "returned"

\* one of the three configuration values is missing or empty
ConfigIncomplete ==
  \E v \in {config.key, config.endpoint, config.region} : v \in {NoneV, ""}

PathsOf(reqs) == {reqs[i].path : i \in 1..Len(reqs)}

Shown(el) == \E i \in 1..Len(ui) : ui[i] = el

PastFetch == pc \in {"detect", "pickers", "submit", "done", "crashed"}

PastDetect == pc \in {"pickers", "submit", "done", "crashed"}

\* C1: translate_text with a source name and a target name that both resolve
\* in the catalog issues exactly one POST /translate with api-version=3.0,
\* to=<target code>, from=<source code> and the text as body, and when the
\* provider's answer carries response[0].translations[0].text it returns
\* that text unchanged.
C1_OnePostAndResult ==
  (Returned /\ Resolves(source_language) /\ Resolves(target_language)) =>
    /\ requests = <<[method |-> "POST", path |-> "/translate",
                     params |-> [api_version |-> "3.0",
                                 to |-> CodeOf(target_language),
                                 from |-> CodeOf(source_language),
                                 scope |-> NoneV],
                     body |-> <<input_text>>]>>
    /\ ProviderSuccess(translate_response) =>
         translation = translate_response.data[1].translations[1].text

C1_Witness ==
  /\ Returned
  /\ Resolves(source_language)
  /\ Resolves(target_language)
  /\ source_language # target_language
  /\ ProviderSuccess(translate_response)
  /\ translation = "Bonjour"
  /\ Len(requests) = 1

\* C2: translate_text with a target name that does not resolve in the
\* catalog (None included, and any name when the catalog is empty) issues
\* no request and returns the invalid-selection sentinel.
C2_UnresolvedTarget ==
  (Returned /\ ~Resolves(target_language)) =>
    /\ requests = <<>>
    /\ translation = "Invalid target language selection."

C2_Witness ==
  /\ Returned
  /\ ~Resolves(target_language)
  /\ target_language # NoneV
  /\ languages # <<>>
  /\ Resolves(source_language)
  /\ strip(input_text) # <<>>
  /\ translation = "Invalid target language selection."

\* C5: when the /translate request of a call with a resolvable target fails
\* (network error, error status, unparseable or malformed body),
\* translate_text returns the error sentinel, shows exactly one error and
\* nothing else, and has issued that one request only.
C5_FailureSentinel ==
  (Returned /\ Resolves(target_language) /\ TranslateFailed(translate_response)) =>
    /\ translation = "Error during translation."
    /\ ui = <<El("error", "translation")>>
    /\ Len(requests) = 1

C5_Witness ==
  /\ Returned
  /\ Resolves(target_language)
  /\ translate_response.kind = "http500"
  /\ translation = "Error during translation."

\* C9: every request translate_text issues is one POST /translate whose `to`
\* is the catalog's code of the target name and whose `from`, when present,
\* is the catalog's code of a source name other than "Detect"; with a
\* resolvable target, a "Detect" or unresolved source still issues the
\* request, without `from`.
C9_CodesFromCatalog ==
  Returned =>
    /\ \A i \in 1..Len(requests) :
         /\ requests[i].path = "/translate"
         /\ Resolves(target_language)
         /\ requests[i].params.to = CodeOf(target_language)
         /\ requests[i].params.to \in DictValues(languages)
         /\ requests[i].params.from # NoneV =>
              /\ source_language # "Detect"
              /\ Resolves(source_language)
              /\ requests[i].params.from = CodeOf(source_language)
              /\ requests[i].params.from \in DictValues(languages)
    /\ (Resolves(target_language)
        /\ (source_language = "Detect" \/ ~Resolves(source_language))) =>
         /\ Len(requests) = 1
         /\ requests[1].params.from = NoneV

C9_Witness ==
  /\ Returned
  /\ Resolves(target_language)
  /\ source_language = "Klingon"
  /\ Len(requests) = 1
  /\ requests[1].params.from = NoneV
  /\ ProviderSuccess(translate_response)

\* C3: the process issues at most one GET /languages, whether it succeeded
\* or failed, and every call of fetch_languages returns what the first call
\* returned.
C3_OneGet ==
  /\ languages_gets <= 1
  /\ (PastFetch /\ ~ConfigIncomplete) =>
       /\ first_languages.set
       /\ languages = first_languages.value
       /\ languages_gets = 1

C3_Witness ==
  /\ pc = "detect"
  /\ fetch_failed
  /\ languages_gets = 1
  /\ "/languages" \notin PathsOf(requests)

\* C4 as stated: a run whose non-blank input text is that of the session's
\* previous run issues no /detect request.
C4_NoDetectOnUnchangedText ==
  (PastDetect /\ unchanged_text /\ strip(input_text) # <<>>) =>
    "/detect" \notin PathsOf(requests)

\* C6: a run whose input text is empty or whitespace only issues no /detect
\* and no /translate request; detect_language returns (None, None), and a
\* press of the button shows the warning and translate_text is not called.
C6_BlankInput ==
  (strip(input_text) = <<>> /\ pc \in {"config", "fetch", "detect", "pickers", "submit", "done"}) =>
    /\ "/detect" \notin PathsOf(requests)
    /\ "/translate" \notin PathsOf(requests)
    /\ detected_lang = NoneV
    /\ confidence = NoScore
    /\ translation = NoneV
    /\ (pc = "done" /\ clicked /\ ~ConfigIncomplete) =>
         Shown(El("warning", "blank"))

C6_Witness ==
  /\ pc = "done"
  /\ clicked
  /\ input_text = <<" ">>
  /\ Shown(El("warning", "blank"))
  /\ languages # <<>>

\* C7: when the GET /languages failed, fetch_languages returns the empty
\* mapping and shows an error, and the run goes on without an exception:
\* the source options are ["Detect"], the target options are empty.
C7_FetchFailure ==
  (fetch_failed /\ PastFetch) =>
    /\ languages = <<>>
    /\ Shown(El("error", "languages"))
    /\ pc # "crashed"
    /\ pc \in {"submit", "done"} =>
         /\ source_options = <<"Detect">>
         /\ target_options = <<>>
         /\ source_language = "Detect"
         /\ target_language = NoneV
         /\ Shown(El("selectbox", "source"))
         /\ Shown(El("selectbox", "target"))

C7_Witness ==
  /\ fetch_failed
  /\ pc = "done"
  /\ source_options = <<"Detect">>
  /\ target_options = <<>>
  /\ Shown(El("button", ""))

\* C8: with a configuration value missing or empty, a run shows exactly one
\* error and stops: the process never issues a request and the run renders
\* no widget.
C8_ConfigMissing ==
  ConfigIncomplete =>
    /\ requests = <<>>
    /\ languages_gets = 0
    /\ pc \in {"idle", "ready", "config", "done"}
    /\ ui \in {<<>>, <<El("error", "config")>>}
    /\ pc = "done" => ui = <<El("error", "config")>>

C8_Witness ==
  /\ config.key = "set"
  /\ config.endpoint = ""
  /\ config.region = "set"
  /\ pc = "done"
  /\ ui = <<El("error", "config")>>

\* C10: previous_input starts unset and changes only in a run's detection
\* block, to that run's input text, when the /detect request issued for it
\* was answered with a language and a non-zero score (or, for a new session,
\* back to unset); a run that skips detection, or whose detection fails,
\* returns nothing or returns confidence 0, leaves it as it was.
C10_Marker ==
  [][session_state' # session_state =>
       \/ session_state' = NoPrevious
       \/ /\ pc = "detect"
          /\ session_state' = [has_previous_input |-> TRUE, previous_input |-> input_text]
          /\ requests' = Append(requests, DetectRequest(input_text))
          /\ detect_found']_vars

C10_Witness ==
  /\ pc = "pickers"
  /\ session_state.has_previous_input
  /\ session_state.previous_input = input_text
  /\ detect_found

====
